---- MODULE Spec2Model ----
(***************************************************************************)
(* A model of convert.py: the interactive main loop, the discovery of     *)
(* .icns files, the per-file conversion loop of convert_files and the     *)
(* summary computed by print_summary.                                     *)
(*                                                                         *)
(* File names are sequences of one-character strings, so that Path.suffix,*)
(* Path.stem and str.lower are computed as the library computes them.     *)
(* An image object is a pair <<kind, i>> (kind "opened" or "converted",   *)
(* i the index of the file it was decoded from); NoImage is the unbound   *)
(* name.  A float ratio is kept as an exact fraction num/den.             *)
(***************************************************************************)
EXTENDS Integers, Sequences, FiniteSets, TLC

VARIABLES
    pc,            \* control location of the process
    dir,           \* content of the input folder: a set of entries
    outDir,        \* content of the output folder: output name -> state
    files,         \* the list `files` of this run (discovery order)
    idx,           \* convert_files: position of `fp` in `files`
    stats,         \* convert_files: the list `stats`; main: its return value
    errors,        \* names written by the except clause (tqdm.write)
    attempts,      \* history: how often the try body was entered per file
    orig_size,     \* convert_files: the local `orig_size`
    ctx,           \* the image managed by the with statement
    img,           \* the image the name `img` is bound to
    openImages,    \* images created and neither closed nor freed
    report,        \* what print_summary computed in this run (or NoReport)
    everCompleted  \* history: output names that were completely written

vars == <<pc, dir, outDir, files, idx, stats, errors, attempts, orig_size,
          ctx, img, openImages, report, everCompleted>>

----------------------------------------------------------------------------
(* Bounds of the model *)

MaxEntries == 3

MaxLen == 4

MaxOrig == 2

MaxConv == 2

----------------------------------------------------------------------------
(* Strings and paths *)

\* str.lower, on the letters the names of the model are made of.
Lower(s) ==
    [k \in 1..Len(s) |->
        CASE s[k] = "I" -> "i"
          [] s[k] = "C" -> "c"
          [] s[k] = "N" -> "n"
          [] s[k] = "S" -> "s"
          [] s[k] = "A" -> "a"
          [] s[k] = "B" -> "b"
          [] OTHER -> s[k]]

\* str.rfind('.'): the last position of a dot, 0 when there is none
\* (positions from 1, so 0 plays the part of Python's -1).
RFindDot(s) ==
    IF \E k \in 1..Len(s) : s[k] = "."
    THEN CHOOSE k \in 1..Len(s) :
            s[k] = "." /\ \A j \in (k+1)..Len(s) : s[j] # "."
    ELSE 0

\* PurePath.suffix: the last dot and what follows it, unless that dot is
\* the first or the last character of the name.
Suffix(name) ==
    LET i == RFindDot(name)
    IN  IF 1 < i /\ i < Len(name) THEN SubSeq(name, i, Len(name)) ELSE <<>>

\* PurePath.stem: the name without its suffix.
Stem(name) ==
    LET i == RFindDot(name)
    IN  IF 1 < i /\ i < Len(name) THEN SubSeq(name, 1, i - 1) ELSE name

DotIcns == <<".", "i", "c", "n", "s">>

DotPng == <<".", "p", "n", "g">>

----------------------------------------------------------------------------
(* The input folder *)

\* Entries the operator may put into the input folder.  size is what
\* stat() reports for the entry, mode the pixel format of the decoded
\* image, png the byte size of the PNG the encoder writes for it.
Catalogue ==
    { [name |-> <<"a", ".", "i", "c", "n", "s">>, kind |-> "file",
       size |-> 2, mode |-> "RGBA", png |-> 3],
      [name |-> <<"a", ".", "I", "C", "N", "S">>, kind |-> "file",
       size |-> 1, mode |-> "P", png |-> 3],
      [name |-> <<"b", ".", "I", "c", "N", "s">>, kind |-> "file",
       size |-> 4, mode |-> "RGB", png |-> 1],
      [name |-> <<".", "i", "c", "n", "s">>, kind |-> "file",
       size |-> 1, mode |-> "RGBA", png |-> 1],
      [name |-> <<"a", ".", "p", "n", "g">>, kind |-> "file",
       size |-> 1, mode |-> "RGBA", png |-> 1],
      [name |-> <<"i", "c", "n", "s">>, kind |-> "file",
       size |-> 1, mode |-> "RGBA", png |-> 1],
      [name |-> <<"d", ".", "i", "c", "n", "s">>, kind |-> "dir",
       size |-> 0, mode |-> "RGBA", png |-> 1] }

Dirs == { d \in SUBSET Catalogue : Cardinality(d) <= MaxEntries }

is_file(e) == e.kind = "file"

\* Mutant of IsIcns: the suffix is compared as it is spelled.
IsIcns_case_sensitive(e) == is_file(e) /\ Suffix(e.name) = DotIcns

\* The filter of the list comprehension.
IsIcns(e) == is_file(e) /\ Lower(Suffix(e.name)) = DotIcns

\* iterdir() yields the entries in an arbitrary order.
Orders(S) ==
    { f \in [1..Cardinality(S) -> S] :
        \A i, j \in 1..Cardinality(S) : i # j => f[i] # f[j] }

out_path(fp) == Stem(fp.name) \o DotPng

\* The names convert_files can write in the output folder.
OutNames == { out_path(e) : e \in { c \in Catalogue : c.kind = "file" } }

NoImage == <<>>

NoReport == <<>>

----------------------------------------------------------------------------
(* print_summary *)

RECURSIVE SumOrig(_)
SumOrig(s) ==
    IF s = <<>> THEN 0
    ELSE s[1].original_size + SumOrig(Tail(s))

RECURSIVE SumConv(_)
SumConv(s) ==
    IF s = <<>> THEN 0
    ELSE s[1].converted_size + SumConv(Tail(s))

\* One step of the stable descending sort: x, which came after every
\* element of t in the input, goes behind the elements whose key is not
\* smaller than its own.
InsertDesc(t, x) ==
    LET before == { k \in 1..Len(t) : t[k].converted_size >= x.converted_size }
        n == Cardinality(before)
    IN  SubSeq(t, 1, n) \o <<x>> \o SubSeq(t, n + 1, Len(t))

RECURSIVE SortedAsc(_)
SortedAsc(s) ==
    IF s = <<>> THEN <<>>
    ELSE LET t == SortedAsc(SubSeq(s, 1, Len(s) - 1))
             x == s[Len(s)]
             n == Cardinality({ k \in 1..Len(t) :
                                  t[k].converted_size <= x.converted_size })
         IN  SubSeq(t, 1, n) \o <<x>> \o SubSeq(t, n + 1, Len(t))

\* Mutant of SortedDesc: an ascending sort turned around, which turns the
\* results of equal size around too.
SortedDesc_reversed(s) ==
    LET t == SortedAsc(s)
    IN  [k \in 1..Len(t) |-> t[Len(t) + 1 - k]]

RECURSIVE SortedDesc(_)
\* sorted(stats, key=converted_size, reverse=True)
SortedDesc(s) ==
    IF s = <<>> THEN <<>>
    ELSE InsertDesc(SortedDesc(SubSeq(s, 1, Len(s) - 1)), s[Len(s)])

TopN == 3

Top3(s) ==
    LET t == SortedDesc(s)
    IN  SubSeq(t, 1, IF Len(t) < TopN THEN Len(t) ELSE TopN)

\* Mutant of Ratio: the division without its guard.
Ratio_unguarded(s) ==
    [num |-> s.converted_size, den |-> s.original_size, divided |-> TRUE]

\* ratio = converted_size / original_size if original_size else 1
Ratio(s) ==
    IF s.original_size # 0
    THEN [num |-> s.converted_size, den |-> s.original_size, divided |-> TRUE]
    ELSE [num |-> 1, den |-> 1, divided |-> FALSE]

Sign(delta) == IF delta > 0 THEN "up" ELSE "down"

Color(delta) == IF delta > 0 THEN "red" ELSE "green"

print_summary(s) ==
    LET total_orig == SumOrig(s)
        total_conv == SumConv(s)
        delta == total_conv - total_orig
        top3 == IF s # <<>> THEN Top3(s) ELSE <<>>
    IN  [count |-> Len(s),
         total_orig |-> total_orig,
         total_conv |-> total_conv,
         delta |-> delta,
         sign |-> Sign(delta),
         color |-> Color(delta),
         top3 |-> top3,
         ratios |-> [k \in 1..Len(top3) |-> Ratio(top3[k])]]

----------------------------------------------------------------------------
(* convert_files *)

\* Mutant of NewStats: the list of the run before is kept.
NewStats_kept(old) == old

\* stats = []
NewStats(old) == <<>>

\* Mutant of Appended: the result is put in front of the list.
Appended_front(st, fp, osize) ==
    <<[filename |-> fp.name,
       original_size |-> osize,
       converted_size |-> fp.png]>> \o st

\* stats.append({...})
Appended(st, fp, osize) ==
    Append(st, [filename |-> fp.name,
                original_size |-> osize,
                converted_size |-> fp.png])

\* Mutant of NextAfterError: the first error ends the loop.
NextAfterError_abort(i) == Len(files) + 1

\* The for loop goes on with the next file after the except clause.
NextAfterError(i) == i + 1

\* Mutant of ShouldSummarize: `if stats is not None`.
ShouldSummarize_not_none(st) == TRUE

\* if stats: (main)
ShouldSummarize(st) == st # <<>>

Init ==
    /\ pc = "header"
    /\ dir \in Dirs
    /\ outDir = [o \in OutNames |-> "absent"]
    /\ files = <<>>
    /\ idx = 1
    /\ stats = <<>>
    /\ errors = <<>>
    /\ attempts = <<>>
    /\ orig_size = 0
    /\ ctx = NoImage
    /\ img = NoImage
    /\ openImages = {}
    /\ report = NoReport
    /\ everCompleted = {}

batch == <<files, idx, stats, errors, attempts, orig_size>>
images == <<ctx, img, openImages>>

\* print_header and ask_output_format: the operator quits or goes on.
Header ==
    /\ pc = "header"
    /\ \E quit \in BOOLEAN : pc' = IF quit THEN "exit" ELSE "discover"
    /\ UNCHANGED <<dir, outDir, batch, images, report, everCompleted>>

\* The operator changes the content of the input folder between two runs.
Populate ==
    /\ pc = "header"
    /\ \E d \in Dirs : d # dir /\ dir' = d
    /\ UNCHANGED <<pc, outDir, batch, images, report, everCompleted>>

\* mkdir of both folders, the listing, and the branch on `not files`.
Discover ==
    /\ pc = "discover"
    /\ \/ /\ pc' = "fatal"
          /\ UNCHANGED batch
       \/ /\ \E f \in Orders({ e \in dir : IsIcns(e) }) : files' = f
          /\ idx' = 1
          /\ errors' = <<>>
          /\ attempts' = [i \in 1..Len(files') |-> 0]
          /\ orig_size' = 0
          /\ IF files' = <<>>
             THEN pc' = "emptyPrompt" /\ stats' = <<>>
             ELSE pc' = "try" /\ stats' = NewStats(stats)
    /\ UNCHANGED <<dir, outDir, images, report, everCompleted>>

\* "Press Enter to return, or Q to quit", then `return None` and main's
\* `continue`.
EmptyPrompt ==
    /\ pc = "emptyPrompt"
    /\ \E quit \in BOOLEAN : pc' = IF quit THEN "exit" ELSE "header"
    /\ UNCHANGED <<dir, outDir, batch, images, report, everCompleted>>

\* The except clause: the error is written and the loop goes on.
Except ==
    /\ errors' = Append(errors, files[idx].name)
    /\ idx' = NextAfterError(idx)
    /\ pc' = "try"

\* __exit__ of the with statement: it closes the image Image.open returned.
WithExit ==
    /\ openImages' = openImages \ {ctx}
    /\ ctx' = NoImage

\* orig_size = fp.stat().st_size
TryStat ==
    /\ pc = "try"
    /\ idx <= Len(files)
    /\ attempts' = [attempts EXCEPT ![idx] = @ + 1]
    /\ \/ /\ orig_size' = files[idx].size
          /\ pc' = "open"
          /\ UNCHANGED <<idx, errors>>
       \/ /\ Except
          /\ UNCHANGED orig_size
    /\ UNCHANGED <<dir, outDir, files, stats, images, report, everCompleted>>

\* with Image.open(fp) as img: the image `img` named before is freed
\* when the name is bound to the new one.
OpenImage ==
    /\ pc = "open"
    /\ \/ /\ ctx' = <<"opened", idx>>
          /\ img' = <<"opened", idx>>
          /\ openImages' = (openImages \ {img}) \cup {<<"opened", idx>>}
          /\ pc' = "load"
          /\ UNCHANGED <<idx, errors>>
       \/ /\ Except
          /\ UNCHANGED images
    /\ UNCHANGED <<dir, outDir, files, stats, attempts, orig_size, report,
                   everCompleted>>

\* img.load() and the normalisation of the mode.
LoadNormalize ==
    /\ pc = "load"
    /\ \/ /\ IF files[idx].mode \notin {"RGB", "RGBA"}
             THEN /\ img' = <<"converted", idx>>
                  /\ openImages' = openImages \cup {<<"converted", idx>>}
             ELSE UNCHANGED <<img, openImages>>
          /\ pc' = "save"
          /\ UNCHANGED <<ctx, idx, errors>>
       \/ /\ WithExit
          /\ Except
          /\ UNCHANGED img
    /\ UNCHANGED <<dir, outDir, files, stats, attempts, orig_size, report,
                   everCompleted>>

\* img.save(out_path, "PNG"): the output file is opened for writing,
\* which empties a file of that name.
SaveBegin ==
    /\ pc = "save"
    /\ \/ /\ outDir' = [outDir EXCEPT ![out_path(files[idx])] = "partial"]
          /\ pc' = "saving"
          /\ UNCHANGED <<idx, errors, images>>
       \/ /\ WithExit
          /\ Except
          /\ UNCHANGED <<img, outDir>>
    /\ UNCHANGED <<dir, files, stats, attempts, orig_size, report,
                   everCompleted>>

\* img.save goes on: the PNG is written and closed, then the with block
\* is left.
SaveEnd ==
    /\ pc = "saving"
    /\ WithExit
    /\ \/ /\ outDir' = [outDir EXCEPT ![out_path(files[idx])] = "valid"]
          /\ everCompleted' = everCompleted \cup {out_path(files[idx])}
          /\ pc' = "statout"
          /\ UNCHANGED <<idx, errors>>
       \/ /\ \E left \in {"partial", "absent"} :
                outDir' = [outDir EXCEPT ![out_path(files[idx])] = left]
          /\ Except
          /\ UNCHANGED everCompleted
    /\ UNCHANGED <<dir, files, stats, attempts, orig_size, img, report>>

\* out_path.stat().st_size and stats.append
StatOut ==
    /\ pc = "statout"
    /\ \/ /\ stats' = Appended(stats, files[idx], orig_size)
          /\ idx' = idx + 1
          /\ pc' = "try"
          /\ UNCHANGED errors
       \/ /\ Except
          /\ UNCHANGED stats
    /\ UNCHANGED <<dir, outDir, files, attempts, orig_size, images, report,
                   everCompleted>>

\* The for loop has run through `files`.
LoopDone == pc = "try" /\ idx > Len(files)

\* return stats: the locals of convert_files go away, the list goes to
\* main.  `files` is kept as the record of what this run discovered.
Return ==
    /\ LoopDone
    /\ pc' = "returned"
    /\ idx' = 1
    /\ errors' = <<>>
    /\ attempts' = <<>>
    /\ orig_size' = 0
    /\ img' = NoImage
    /\ openImages' = openImages \ {img}
    /\ UNCHANGED <<dir, outDir, files, stats, ctx, report, everCompleted>>

\* if stats: print_summary(stats)
Summarize ==
    /\ pc = "returned"
    /\ IF ShouldSummarize(stats)
       THEN report' = <<print_summary(stats)>>
       ELSE UNCHANGED report
    /\ pc' = "prompt"
    /\ UNCHANGED <<dir, outDir, batch, images, everCompleted>>

\* "Press Enter to restart, or Q to quit."
Prompt ==
    /\ pc = "prompt"
    /\ \E quit \in BOOLEAN : pc' = IF quit THEN "exit" ELSE "header"
    /\ report' = NoReport
    /\ files' = <<>>
    /\ UNCHANGED <<dir, outDir, idx, stats, errors, attempts, orig_size,
                   images, everCompleted>>

Running == pc \notin {"exit", "fatal", "interrupted"}

\* KeyboardInterrupt: it is no Exception, so the except clause of the loop
\* lets it through; the with statement is left on the way out and the
\* process ends.
Interrupt ==
    /\ Running
    /\ pc' = "interrupted"
    /\ ctx' = NoImage
    /\ img' = NoImage
    /\ openImages' = {}
    /\ UNCHANGED <<dir, outDir, batch, report, everCompleted>>

BatchStep ==
    \/ TryStat
    \/ OpenImage
    \/ LoadNormalize
    \/ SaveBegin
    \/ SaveEnd
    \/ StatOut
    \/ Return

Next ==
    \/ Header
    \/ Populate
    \/ Discover
    \/ EmptyPrompt
    \/ BatchStep
    \/ Summarize
    \/ Prompt
    \/ Interrupt

Spec == Init /\ [][Next]_vars

FairSpec == Spec /\ WF_vars(BatchStep)

----------------------------------------------------------------------------
(* print_summary on its own: every outcome of up to MaxLen results *)

\* The i-th result carries a name of its own: "f" followed by i times "x".
FileName(i) == <<"f">> \o [k \in 1..i |-> "x"]

SummaryInit ==
    /\ pc = "call"
    /\ \E n \in 1..MaxLen :
         \E g \in [1..n -> (0..MaxOrig) \X (1..MaxConv)] :
            stats = [i \in 1..n |->
                        [filename |-> FileName(i),
                         original_size |-> g[i][1],
                         converted_size |-> g[i][2]]]
    /\ report = NoReport
    /\ dir = {}
    /\ outDir = [o \in OutNames |-> "absent"]
    /\ files = <<>>
    /\ idx = 1
    /\ errors = <<>>
    /\ attempts = <<>>
    /\ orig_size = 0
    /\ ctx = NoImage
    /\ img = NoImage
    /\ openImages = {}
    /\ everCompleted = {}

CallPrintSummary ==
    /\ pc = "call"
    /\ report' = <<print_summary(stats)>>
    /\ pc' = "printed"
    /\ UNCHANGED <<dir, outDir, batch, images, everCompleted>>

SummaryNext == CallPrintSummary

SummarySpec == SummaryInit /\ [][SummaryNext]_vars

----------------------------------------------------------------------------
(* The claims *)

InBatch == pc \in {"try", "open", "load", "save", "saving", "statout"}

Reported(fp) == \E j \in 1..Len(errors) : errors[j] = fp.name

\* The results of the files among the first k that raised no error, in
\* the order of `files`.
RECURSIVE ExpectedOutcome(_)
ExpectedOutcome(k) ==
    IF k = 0 THEN <<>>
    ELSE IF Reported(files[k])
         THEN ExpectedOutcome(k - 1)
         ELSE Append(ExpectedOutcome(k - 1),
                     [filename |-> files[k].name,
                      original_size |-> files[k].size,
                      converted_size |-> files[k].png])

\* C1: whenever the loop stands between two files or at its end, `stats`
\* is exactly the results of the files processed so far that raised no
\* error, in discovery order; an error was written for every other one.
C1_OutcomeIsSuccessfulSubsequence ==
    pc = "try" =>
        /\ stats = ExpectedOutcome(idx - 1)
        /\ Len(stats) <= Len(files)
        /\ Len(stats) + Len(errors) = idx - 1
        /\ \A j \in 1..Len(errors) :
              \E i \in 1..(idx - 1) : files[i].name = errors[j]

C1_Witness ==
    /\ LoopDone
    /\ Len(files) = 3
    /\ errors = <<files[2].name>>
    /\ Len(stats) = 2
    /\ stats[1].filename = files[1].name
    /\ stats[2].filename = files[3].name

C2_EachFileOnce ==
    InBatch =>
        /\ idx \in 1..(Len(files) + 1)
        /\ \A i \in 1..Len(files) :
              attempts[i] = IF i < idx \/ (i = idx /\ pc # "try") THEN 1 ELSE 0
        /\ \A j, k \in 1..Len(errors) : j # k => errors[j] # errors[k]
        /\ pc = "try" => Len(errors) + Len(stats) = idx - 1

C2_ErrorGoesOn ==
    Len(errors') > Len(errors) =>
        /\ Len(errors') = Len(errors) + 1
        /\ errors'[Len(errors')] = files[idx].name
        /\ pc' = "try"
        /\ idx' = idx + 1
        /\ stats' = stats

\* C2: every file of the batch is tried once and only once, an error of
\* a file writes one error and hands the loop to the next file, and a
\* batch that is not interrupted comes to its return.
C2_IsolateAndContinue ==
    /\ []C2_EachFileOnce
    /\ [][C2_ErrorGoesOn]_vars
    /\ (InBatch ~> (pc = "returned" \/ pc = "interrupted"))

C2_Witness ==
    /\ pc = "statout"
    /\ idx = 3
    /\ Len(files) = 3
    /\ errors = <<files[1].name, files[2].name>>

\* C6: a summary is computed only for an outcome that holds a result.
\* After a discovery that found nothing, the prompt leads to a new run or
\* to the exit, with no conversion and no summary; an outcome that is the
\* empty list goes to the restart-or-quit prompt with no summary.
C6_SummaryOnlyForResults ==
    [][ /\ report' # NoReport => stats' # <<>>
        /\ pc' = "emptyPrompt" => files' = <<>> /\ stats' = <<>>
        /\ pc = "emptyPrompt" =>
              /\ pc' \in {"header", "exit", "interrupted"}
              /\ report' = NoReport
              /\ outDir' = outDir
              /\ stats' = <<>>
        /\ (pc = "returned" /\ stats = <<>>) =>
              /\ pc' \in {"prompt", "interrupted"}
              /\ report' = NoReport ]_vars

C6_Witness ==
    /\ pc = "prompt"
    /\ Len(files) = 2
    /\ stats = <<>>
    /\ report = NoReport

\* The name ends in ".icns", in any mix of cases, behind a stem.
EndsInDotIcns(name) ==
    LET spellings == << {"."}, {"i", "I"}, {"c", "C"}, {"n", "N"}, {"s", "S"} >>
        n == Len(name)
    IN  /\ n > 5
        /\ \A k \in 1..5 : name[n - 5 + k] \in spellings[k]

\* C7: the discovered files are the regular files of the folder whose
\* extension is .icns in any mix of cases, each once; a folder with no
\* such file gives the empty list and the prompt, not an error.
C7_DiscoveryExact ==
    (InBatch \/ pc = "emptyPrompt") =>
        /\ { files[i] : i \in 1..Len(files) }
              = { e \in dir : e.kind = "file" /\ EndsInDotIcns(e.name) }
        /\ \A i, j \in 1..Len(files) : i # j => files[i] # files[j]
        /\ pc = "emptyPrompt" <=> files = <<>>

C7_Witness ==
    /\ pc = "try"
    /\ Len(files) = 2
    /\ \E e \in dir : e.kind = "dir" /\ EndsInDotIcns(e.name)
    /\ \E i \in 1..2 : files[i].name = <<"a", ".", "I", "C", "N", "S">>

\* C8 as claimed: after an interrupt every output that was once written
\* completely is a complete PNG.
C8_InterruptKeepsCompletedOutputs ==
    pc = "interrupted" =>
        \A o \in everCompleted : outDir[o] = "valid"

\* C9 as claimed: outside the with block of a file, that is before the
\* next file, at the end of the loop and after the return, no image is
\* open.
C9_NoImageOutsideItsBlock ==
    pc \in {"try", "statout", "returned"} => openImages = {}

RECURSIVE SizeOfNamed(_, _)
SizeOfNamed(names, k) ==
    IF k = 0 THEN 0
    ELSE SizeOfNamed(names, k - 1)
            + (IF files[k].name \in names THEN files[k].size ELSE 0)

\* C10: what a run returns and sums up are results of files this run
\* discovered, each at most once, whatever earlier runs converted.
C10_RunsAreIndependent ==
    pc \in {"returned", "prompt"} =>
        /\ Len(stats) <= Len(files)
        /\ \A k \in 1..Len(stats) :
              \E i \in 1..Len(files) : files[i].name = stats[k].filename
        /\ \A j, k \in 1..Len(stats) :
              j # k => stats[j].filename # stats[k].filename
        /\ report # NoReport =>
              /\ report[1].count = Len(stats)
              /\ report[1].total_orig
                    = SizeOfNamed({ stats[k].filename : k \in 1..Len(stats) },
                                  Len(files))

C10_Witness ==
    /\ pc = "prompt"
    /\ Len(files) = 1
    /\ report # NoReport
    /\ report[1].count = 1
    /\ Cardinality(everCompleted) = 2

----------------------------------------------------------------------------
(* The claims about print_summary *)

\* C3 as claimed: count, both totals and the delta, shown as an increase
\* exactly when it is positive and as a decrease exactly when it is
\* negative.
C3_SummaryTotalsAndSign ==
    pc = "printed" =>
        LET r == report[1]
        IN  /\ r.count = Len(stats)
            /\ r.total_orig = SumOrig(stats)
            /\ r.total_conv = SumConv(stats)
            /\ r.delta = r.total_conv - r.total_orig
            /\ r.sign = "up" <=> r.delta > 0
            /\ r.sign = "down" <=> r.delta < 0

\* The place in `stats` of the k-th entry of the top-3 list.
PlaceOf(k) ==
    CHOOSE i \in 1..Len(stats) :
        stats[i].filename = report[1].top3[k].filename

\* C4: the top-3 list holds min(3, len) results of the outcome, largest
\* converted size first, results of equal size in discovery order, and
\* every result left out is no larger than any listed one and, where it
\* is as large, was discovered later.
C4_Top3StableDescending ==
    pc = "printed" =>
        LET t == report[1].top3
            listed == { PlaceOf(k) : k \in 1..Len(t) }
        IN  /\ Len(t) = IF Len(stats) < 3 THEN Len(stats) ELSE 3
            /\ \A k \in 1..Len(t) : t[k] = stats[PlaceOf(k)]
            /\ \A j, k \in 1..Len(t) :
                  j < k =>
                     /\ t[j].converted_size >= t[k].converted_size
                     /\ t[j].converted_size = t[k].converted_size
                           => PlaceOf(j) < PlaceOf(k)
            /\ \A i \in (1..Len(stats)) \ listed :
                  \A k \in 1..Len(t) :
                     /\ stats[i].converted_size <= t[k].converted_size
                     /\ stats[i].converted_size = t[k].converted_size
                           => PlaceOf(k) < i

C4_Witness ==
    /\ pc = "printed"
    /\ Len(stats) = 4
    /\ stats[1].converted_size = 1
    /\ stats[2].converted_size = 2
    /\ stats[3].converted_size = 1
    /\ stats[4].converted_size = 1
    /\ report[1].top3[3].filename = FileName(3)

\* C5: the ratio of a top-3 result is converted/original when the
\* original size is positive and exactly 1 when it is zero, and no
\* division has a zero divisor.
C5_RatioDefined ==
    pc = "printed" =>
        LET t == report[1].top3
            q == report[1].ratios
        IN  /\ Len(q) = Len(t)
            /\ \A k \in 1..Len(t) :
                  /\ q[k].divided => q[k].den # 0
                  /\ t[k].original_size > 0 =>
                        /\ q[k].divided
                        /\ q[k].num * t[k].original_size
                              = t[k].converted_size * q[k].den
                  /\ t[k].original_size = 0 =>
                        /\ ~q[k].divided
                        /\ q[k].num = q[k].den
                        /\ q[k].den # 0

C5_Witness ==
    /\ pc = "printed"
    /\ Len(stats) = 2
    /\ report[1].top3[1].original_size = 0
    /\ report[1].top3[2].original_size > 0
    /\ report[1].ratios[1].num = 1
    /\ report[1].ratios[2].divided

====
